---- MODULE Spec2Model ----
(***************************************************************************)
(* Credential handling and session authentication of the school API:       *)
(* the Argon2id password engine and its PHC codec (pkg/utils/password.go), *)
(* the JWT issuer/validator, the Protect middleware and the register /     *)
(* login / logout handlers together with the teachers table they use.      *)
(*                                                                         *)
(* Text is a sequence of one-character strings, a byte buffer a sequence   *)
(* of integers 0..255, so that splitting, trimming, number parsing and     *)
(* base64 are computed the way the Go code computes them.                  *)
(***************************************************************************)
EXTENDS Integers, Sequences, FiniteSets, TLC

VARIABLES
    stored,     \* password engine: the encoded hash record currently held
    last,       \* password engine: the last call made and what it returned
    now,        \* server: wall clock, whole Unix seconds
    steps,      \* server: changes of clock, table and token set so far
    schema,     \* server: column defaults of the teachers table, once observed
    teachers,   \* server: rows of the teachers table, by id
    nextId,     \* server: AUTO_INCREMENT of the teachers table
    issued,     \* server: session tokens minted by LoginTeacher
    loggedOut,  \* server: tokens minted before the latest Logout (history)
    process,    \* server: the environment, the loaded signing key, the run state
    resp        \* server: the last request handled and its response

pwdVars == <<stored, last>>
srvVars == <<now, steps, schema, teachers, nextId, issued, loggedOut, process, resp>>
vars == <<stored, last, now, steps, schema, teachers, nextId, issued, loggedOut, process, resp>>

----------------------------------------------------------------------------
(* Bounds of the model *)

NumSalts == 2       \* distinct outputs of the random salt generator
MaxSteps == 3       \* changes of clock, table and token set in one behaviour
MaxTeachers == 2    \* rows the teachers table can hold
MaxTokens == 2      \* tokens minted in one behaviour
MaxBatch == 2       \* elements of a bulk patch
MaxPatches == 1     \* bulk patches in one behaviour

----------------------------------------------------------------------------
(* Program constants, pkg/utils/password.go *)

defaultMemory == 65536
defaultIterations == 3
defaultParallelism == 2
defaultSaltLength == 16
defaultKeyLength == 32
algorithmName == <<"a", "r", "g", "o", "n", "2", "i", "d">>
argon2Version == 19
minPasswordLength == 4

NoErr == "nil"
NoTime == -1        \* a nil *time.Time, an absent numeric claim

----------------------------------------------------------------------------
(* Text helpers: strings.Split, strings.TrimPrefix, strconv, fmt %d *)

Digits == <<"0", "1", "2", "3", "4", "5", "6", "7", "8", "9">>

DigitIndex == [c \in {Digits[i] : i \in 1..10} |-> (CHOOSE i \in 1..10 : Digits[i] = c) - 1]

IsDigit(c) == c \in DOMAIN DigitIndex

DigitVal(c) == DigitIndex[c]

RECURSIVE FormatUint(_)
FormatUint(n) ==
    IF n < 10 THEN <<Digits[n + 1]>>
    ELSE FormatUint(n \div 10) \o <<Digits[(n % 10) + 1]>>

RECURSIVE StripZeros(_)
StripZeros(s) ==
    IF Len(s) > 1 /\ s[1] = "0" THEN StripZeros(Tail(s)) ELSE s

RECURSIVE DigitsLess(_, _)
DigitsLess(a, b) ==
    IF a = << >> THEN FALSE
    ELSE IF DigitVal(a[1]) # DigitVal(b[1]) THEN DigitVal(a[1]) < DigitVal(b[1])
    ELSE DigitsLess(Tail(a), Tail(b))

MaxUint32Digits == <<"4", "2", "9", "4", "9", "6", "7", "2", "9", "5">>

FitsUint32(s) ==
    LET z == StripZeros(s) IN
    \/ Len(z) < Len(MaxUint32Digits)
    \/ Len(z) = Len(MaxUint32Digits) /\ ~DigitsLess(MaxUint32Digits, z)

RECURSIVE DigitsValue(_, _)
DigitsValue(s, acc) ==
    IF s = << >> THEN acc ELSE DigitsValue(Tail(s), acc * 10 + DigitVal(s[1]))

\* strconv.ParseUint(s, 10, 32): decimal digits only, no sign, at most 2^32-1.
ParseUint(s) ==
    IF s = << >> \/ \E i \in 1..Len(s) : ~IsDigit(s[i]) THEN [ok |-> FALSE, val |-> 0]
    ELSE IF ~FitsUint32(s) THEN [ok |-> FALSE, val |-> 0]
    ELSE [ok |-> TRUE, val |-> DigitsValue(StripZeros(s), 0)]

\* strings.Split(s, sep) for a one-character separator: the text between
\* consecutive separators, empty pieces included.
SepPositions(s, sep) == {i \in 1..Len(s) : s[i] = sep}

NthSep(P, n, k) ==
    IF k = 0 THEN 0
    ELSE IF k > Cardinality(P) THEN n + 1
    ELSE CHOOSE i \in P : Cardinality({j \in P : j <= i}) = k

Split(s, sep) ==
    LET P == SepPositions(s, sep) IN
    [k \in 1..(Cardinality(P) + 1) |->
        SubSeq(s, NthSep(P, Len(s), k - 1) + 1, NthSep(P, Len(s), k) - 1)]

HasPrefix(s, pre) == Len(s) >= Len(pre) /\ SubSeq(s, 1, Len(pre)) = pre

TrimPrefix(s, pre) == IF HasPrefix(s, pre) THEN SubSeq(s, Len(pre) + 1, Len(s)) ELSE s

----------------------------------------------------------------------------
(* base64.RawStdEncoding: unpadded standard alphabet *)

B64Chars ==
    <<"A", "B", "C", "D", "E", "F", "G", "H", "I", "J", "K", "L", "M",
      "N", "O", "P", "Q", "R", "S", "T", "U", "V", "W", "X", "Y", "Z",
      "a", "b", "c", "d", "e", "f", "g", "h", "i", "j", "k", "l", "m",
      "n", "o", "p", "q", "r", "s", "t", "u", "v", "w", "x", "y", "z",
      "0", "1", "2", "3", "4", "5", "6", "7", "8", "9", "+", "/">>

B64Index == [c \in {B64Chars[i] : i \in 1..64} |-> (CHOOSE i \in 1..64 : B64Chars[i] = c) - 1]

IsB64(c) == c \in DOMAIN B64Index

B64Val(c) == B64Index[c]

B64(v) == B64Chars[v + 1]

ByteAt(b, i) == IF i <= Len(b) THEN b[i] ELSE 0

\* Three bytes make four characters; a tail of one or two bytes makes two
\* or three characters, without padding.
B64Encode(b) ==
    LET n == (Len(b) \div 3) * 4
             + (IF Len(b) % 3 = 0 THEN 0 ELSE (Len(b) % 3) + 1) IN
    [j \in 1..n |->
        LET g == 3 * ((j - 1) \div 4)
            b1 == ByteAt(b, g + 1)
            b2 == ByteAt(b, g + 2)
            b3 == ByteAt(b, g + 3) IN
        CASE (j - 1) % 4 = 0 -> B64(b1 \div 4)
          [] (j - 1) % 4 = 1 -> B64((b1 % 4) * 16 + b2 \div 16)
          [] (j - 1) % 4 = 2 -> B64((b2 % 16) * 4 + b3 \div 64)
          [] OTHER -> B64(b3 % 64)]

ValAt(c, i) == IF i <= Len(c) THEN B64Val(c[i]) ELSE 0

B64DecodeVals(c) ==
    LET n == (Len(c) \div 4) * 3
             + (IF Len(c) % 4 < 2 THEN 0 ELSE (Len(c) % 4) - 1) IN
    [k \in 1..n |->
        LET g == 4 * ((k - 1) \div 3)
            c1 == ValAt(c, g + 1)
            c2 == ValAt(c, g + 2)
            c3 == ValAt(c, g + 3)
            c4 == ValAt(c, g + 4) IN
        CASE (k - 1) % 3 = 0 -> c1 * 4 + c2 \div 16
          [] (k - 1) % 3 = 1 -> (c2 % 16) * 16 + c3 \div 4
          [] OTHER -> (c3 % 4) * 64 + c4]

\* The decoder skips carriage returns and line feeds wherever they stand.
IsNewline(ch) == ch \in {"\n", "\r"}

SkipNewlines(c) == SelectSeq(c, LAMBDA ch : ~IsNewline(ch))

\* The decoder on the characters it does not skip: every character in the
\* alphabet, no dangling single character; non-zero trailing bits are
\* tolerated (non-strict mode).
decodeQuanta(c) ==
    IF (\E i \in 1..Len(c) : ~IsB64(c[i])) \/ Len(c) % 4 = 1
    THEN [ok |-> FALSE, bytes |-> << >>]
    ELSE [ok |-> TRUE, bytes |-> B64DecodeVals(c)]

\* DecodeString
B64Decode(c) == decodeQuanta(SkipNewlines(c))

----------------------------------------------------------------------------
(* argon2.IDKey, the key-derivation function of golang.org/x/crypto.       *)
(* It panics for time < 1 or threads < 1; otherwise the key is keyLen      *)
(* bytes determined by every input.  The bytes are a digest of the inputs: *)
(* different inputs of the model give different keys.                      *)

RECURSIVE Mix(_, _)
Mix(s, h) == IF s = << >> THEN h ELSE Mix(Tail(s), (h * 31 + s[1] + 1) % 65521)

Digest(password, salt, time, memory, threads, keyLen) ==
    Mix(password \o <<256>> \o salt \o <<257, time, memory % 65521, threads, keyLen>>, 7)

IDKeyPanics(time, threads) == time < 1 \/ threads < 1

IDKey(password, salt, time, memory, threads, keyLen) ==
    LET d == Digest(password, salt, time, memory, threads, keyLen) IN
    [i \in 1..keyLen |->
        IF i % 2 = 1 THEN (d + 3 * (i \div 2)) % 256
        ELSE ((d \div 256) + 5 * (i \div 2)) % 256]

ConstantTimeCompareLengthOnly(x, y) == Len(x) = Len(y)

\* subtle.ConstantTimeCompare(x, y) == 1
ConstantTimeCompare(x, y) == Len(x) = Len(y) /\ \A i \in 1..Len(x) : x[i] = y[i]

----------------------------------------------------------------------------
(* Session tokens.  A token string is the record of what it encodes: the   *)
(* header's algorithm, the claims, and the key its signature was made with.*)
(* form tells a JWT from the empty string and from text that is no JWT.    *)

TokenLifetime == 900
Issuer == "school-app"
SecretKey == "JWT_SECRET_KEY"    \* the value the environment holds when the key is set
NoKey == ""                      \* os.Getenv of an unset or empty variable; a nil jwtKey

\* The package variable jwtKey.
jwtKey == process.jwtKey

initOrDefault(key) == [jwtKey |-> key, state |-> "running"]

\* init(): key is os.Getenv("JWT_SECRET_KEY") once godotenv.Load has run.
\* The panic of a package initialiser ends the process before main runs.
init(key) ==
    IF key = NoKey THEN [jwtKey |-> NoKey, state |-> "stopped"]
    ELSE [jwtKey |-> key, state |-> "running"]
OtherKey == "other key"

HMACMethods == {"HS256", "HS384", "HS512"}
RegisteredMethods == HMACMethods \cup {"RS256", "none"}

EmptyString == [form |-> "empty", alg |-> "", user_id |-> << >>, role |-> "",
                iat |-> NoTime, exp |-> NoTime, iss |-> "", key |-> ""]
NotAToken == [EmptyString EXCEPT !.form = "garbage"]

GenerateJWTNoLifetime(userID, role, t) ==
    [form |-> "jwt", alg |-> "HS256", user_id |-> userID, role |-> role,
     iat |-> t, exp |-> t, iss |-> Issuer, key |-> jwtKey]

\* t is time.Now(), in whole seconds as jwt.NewNumericDate keeps it.
GenerateJWT(userID, role, t) ==
    [form |-> "jwt", alg |-> "HS256", user_id |-> userID, role |-> role,
     iat |-> t, exp |-> t + TokenLifetime, iss |-> Issuer, key |-> jwtKey]

\* The key function of ValidateJWT: does it hand out the key for this method?
keyFuncAccepts(alg) == alg \in HMACMethods

ValidateJWTRevoking(tokenString, t) ==
    IF tokenString.form # "jwt" THEN [ok |-> FALSE, claims |-> EmptyString]
    ELSE IF tokenString \in loggedOut THEN [ok |-> FALSE, claims |-> EmptyString]
    ELSE IF tokenString.alg \notin RegisteredMethods THEN [ok |-> FALSE, claims |-> EmptyString]
    ELSE IF ~keyFuncAccepts(tokenString.alg) THEN [ok |-> FALSE, claims |-> EmptyString]
    ELSE IF tokenString.key # jwtKey THEN [ok |-> FALSE, claims |-> EmptyString]
    ELSE IF tokenString.exp # NoTime /\ ~(t < tokenString.exp)
         THEN [ok |-> FALSE, claims |-> EmptyString]
    ELSE [ok |-> TRUE, claims |-> tokenString]

ValidateJWTExpiryInclusive(tokenString, t) ==
    IF tokenString.form # "jwt" THEN [ok |-> FALSE, claims |-> EmptyString]
    ELSE IF tokenString.alg \notin RegisteredMethods THEN [ok |-> FALSE, claims |-> EmptyString]
    ELSE IF ~keyFuncAccepts(tokenString.alg) THEN [ok |-> FALSE, claims |-> EmptyString]
    ELSE IF tokenString.key # jwtKey THEN [ok |-> FALSE, claims |-> EmptyString]
    ELSE IF tokenString.exp # NoTime /\ ~(t <= tokenString.exp)
         THEN [ok |-> FALSE, claims |-> EmptyString]
    ELSE [ok |-> TRUE, claims |-> tokenString]

\* jwt.ParseWithClaims with the default validator: the method named by the
\* header must be registered, the key function must accept it, the signature
\* must verify under jwtKey, and exp, when present, must lie after now.
ValidateJWT(tokenString, t) ==
    IF tokenString.form # "jwt" THEN [ok |-> FALSE, claims |-> EmptyString]
    ELSE IF tokenString.alg \notin RegisteredMethods THEN [ok |-> FALSE, claims |-> EmptyString]
    ELSE IF ~keyFuncAccepts(tokenString.alg) THEN [ok |-> FALSE, claims |-> EmptyString]
    ELSE IF tokenString.key # jwtKey THEN [ok |-> FALSE, claims |-> EmptyString]
    ELSE IF tokenString.exp # NoTime /\ ~(t < tokenString.exp)
         THEN [ok |-> FALSE, claims |-> EmptyString]
    ELSE [ok |-> TRUE, claims |-> tokenString]

\* strconv.Itoa / strconv.Atoi on the account id; Atoi's error is dropped by
\* the caller, which then sees 0.
Itoa(n) == FormatUint(n)

Atoi(s) == IF ParseUint(s).ok THEN ParseUint(s).val ELSE 0

----------------------------------------------------------------------------
(* Hash codec *)

PHCFormat(alg, version, memory, iterations, parallelism, salt, hash) ==
    <<"$">> \o alg \o <<"$", "v", "=">> \o FormatUint(version)
    \o <<"$", "m", "=">> \o FormatUint(memory)
    \o <<",", "t", "=">> \o FormatUint(iterations)
    \o <<",", "p", "=">> \o FormatUint(parallelism)
    \o <<"$">> \o B64Encode(salt) \o <<"$">> \o B64Encode(hash)

encodePHCString(salt, hash) ==
    PHCFormat(algorithmName, argon2Version, defaultMemory, defaultIterations,
              defaultParallelism, salt, hash)

NoHash == [Algorithm |-> << >>, Version |-> 0, Memory |-> 0, Iterations |-> 0,
           Parallelism |-> 0, Salt |-> << >>, Hash |-> << >>]

parseAlgorithm(algorithmPart) == algorithmPart = algorithmName

parseVersion(versionPart) ==
    LET r == ParseUint(TrimPrefix(versionPart, <<"v", "=">>)) IN
    IF ~r.ok THEN [ok |-> FALSE, val |-> 0]
    ELSE IF r.val # argon2Version THEN [ok |-> FALSE, val |-> 0]
    ELSE [ok |-> TRUE, val |-> r.val]

\* The params map after the loop over the pairs: the last value written for
\* each key, or the first malformed pair stops the loop with an error.
RECURSIVE parsePairs(_, _)
parsePairs(pairs, params) ==
    IF pairs = << >> THEN [ok |-> TRUE, params |-> params]
    ELSE
        LET kv == Split(pairs[1], "=") IN
        IF Len(kv) # 2 THEN [ok |-> FALSE, params |-> params]
        ELSE
            LET v == ParseUint(kv[2]) IN
            IF ~v.ok THEN [ok |-> FALSE, params |-> params]
            ELSE parsePairs(Tail(pairs),
                     [k \in DOMAIN params \cup {kv[1]} |->
                         IF k = kv[1] THEN v.val ELSE params[k]])

\* The required keys m, t, p of the params map r.params; p is cut to uint8.
requireParameters(r) ==
    IF ~r.ok THEN [ok |-> FALSE, m |-> 0, t |-> 0, p |-> 0]
    ELSE IF ~({<<"m">>, <<"t">>, <<"p">>} \subseteq DOMAIN r.params)
         THEN [ok |-> FALSE, m |-> 0, t |-> 0, p |-> 0]
    ELSE [ok |-> TRUE, m |-> r.params[<<"m">>], t |-> r.params[<<"t">>],
          p |-> r.params[<<"p">>] % 256]

parseParameters(paramPart) ==
    requireParameters(parsePairs(Split(paramPart, ","), [k \in {} |-> 0]))

decodeSaltAndHash(saltPart, hashPart) ==
    LET s == B64Decode(saltPart)
        h == B64Decode(hashPart) IN
    IF ~s.ok THEN [ok |-> FALSE, salt |-> << >>, hash |-> << >>]
    ELSE IF ~h.ok THEN [ok |-> FALSE, salt |-> << >>, hash |-> << >>]
    ELSE [ok |-> TRUE, salt |-> s.bytes, hash |-> h.bytes]

\* The hash struct once each part was parsed: v, pr and sh are the results
\* of parseVersion, parseParameters and decodeSaltAndHash, looked at in
\* that order.
parsedHash(algorithmPart, v, pr, sh) ==
    IF ~v.ok THEN [ok |-> FALSE, hash |-> NoHash]
    ELSE IF ~pr.ok THEN [ok |-> FALSE, hash |-> NoHash]
    ELSE IF ~sh.ok THEN [ok |-> FALSE, hash |-> NoHash]
    ELSE [ok |-> TRUE,
          hash |-> [Algorithm |-> algorithmPart, Version |-> v.val,
                    Memory |-> pr.m, Iterations |-> pr.t, Parallelism |-> pr.p,
                    Salt |-> sh.salt, Hash |-> sh.hash]]

\* parts is strings.Split(encodedHash, "$").
parseParts(parts) ==
    IF Len(parts) # 6 THEN [ok |-> FALSE, hash |-> NoHash]
    ELSE IF ~parseAlgorithm(parts[2]) THEN [ok |-> FALSE, hash |-> NoHash]
    ELSE parsedHash(parts[2], parseVersion(parts[3]), parseParameters(parts[4]),
                    decodeSaltAndHash(parts[5], parts[6]))

parsePHCString(encodedHash) == parseParts(Split(encodedHash, "$"))

----------------------------------------------------------------------------
(* Password hash engine *)

validatePasswordInputNonEmpty(password) ==
    IF Len(password) = 0 THEN "password cannot be empty" ELSE NoErr

validatePasswordInput(password) ==
    IF Len(password) = 0 THEN "password cannot be empty"
    ELSE IF Len(password) < minPasswordLength THEN "password must be at least 4 characters"
    ELSE NoErr

\* generateSalt(defaultSaltLength): crypto/rand fills the buffer; the model
\* numbers the possible outputs.
generateSalt(seed) == [i \in 1..defaultSaltLength |-> (seed * 37 + i * 11) % 256]

Salts == {generateSalt(k) : k \in 1..NumSalts}

\* salt is the buffer generateSalt returned in this call.
HashPassword(password, salt) ==
    IF validatePasswordInput(password) # NoErr
    THEN [hash |-> << >>, err |-> validatePasswordInput(password)]
    ELSE [hash |-> encodePHCString(salt,
                       IDKey(password, salt, defaultIterations, defaultMemory,
                             defaultParallelism, defaultKeyLength)),
          err |-> NoErr]

verifyWithDefaults(password, storedHash) ==
    IF ~storedHash.ok
    THEN [ok |-> FALSE, err |-> "invalid hash format", panic |-> FALSE]
    ELSE [ok |-> ConstantTimeCompare(
                    IDKey(password, storedHash.hash.Salt, defaultIterations,
                          defaultMemory, defaultParallelism, defaultKeyLength),
                    storedHash.hash.Hash),
          err |-> NoErr, panic |-> FALSE]

\* CheckPassword from the parse on: storedHash is the result of
\* parsePHCString(encodedHash).
verifyWithStored(password, storedHash) ==
    IF ~storedHash.ok
    THEN [ok |-> FALSE, err |-> "invalid hash format", panic |-> FALSE]
    ELSE IF IDKeyPanics(storedHash.hash.Iterations, storedHash.hash.Parallelism)
    THEN [ok |-> FALSE, err |-> NoErr, panic |-> TRUE]
    ELSE [ok |-> ConstantTimeCompare(
                    IDKey(password, storedHash.hash.Salt,
                          storedHash.hash.Iterations, storedHash.hash.Memory,
                          storedHash.hash.Parallelism, Len(storedHash.hash.Hash)),
                    storedHash.hash.Hash),
          err |-> NoErr, panic |-> FALSE]

CheckPassword(password, encodedHash) ==
    IF validatePasswordInput(password) # NoErr
    THEN [ok |-> FALSE, err |-> validatePasswordInput(password), panic |-> FALSE]
    ELSE verifyWithStored(password, parsePHCString(encodedHash))

needsUpgradeNever(hash) == FALSE

needsUpgrade(hash) ==
    \/ hash.Memory < defaultMemory
    \/ hash.Iterations < defaultIterations
    \/ hash.Parallelism < defaultParallelism

\* The return of UpgradeHashIfNeeded after its call h of HashPassword;
\* hashed records whether HashPassword was called.
upgraded(h) ==
    IF h.err # NoErr
    THEN [hash |-> << >>, didUpgrade |-> FALSE, err |-> h.err,
          panic |-> FALSE, hashed |-> TRUE]
    ELSE [hash |-> h.hash, didUpgrade |-> TRUE, err |-> NoErr,
          panic |-> FALSE, hashed |-> TRUE]

\* UpgradeHashIfNeeded after the verification: storedHash is the result of
\* its own parsePHCString(encodedHash).
upgradeParsed(password, encodedHash, salt, storedHash) ==
    IF ~storedHash.ok
    THEN [hash |-> << >>, didUpgrade |-> FALSE, err |-> "failed to parse stored hash",
          panic |-> FALSE, hashed |-> FALSE]
    ELSE IF needsUpgrade(storedHash.hash)
    THEN upgraded(HashPassword(password, salt))
    ELSE [hash |-> encodedHash, didUpgrade |-> FALSE, err |-> NoErr,
          panic |-> FALSE, hashed |-> FALSE]

\* c is the result of CheckPassword(password, encodedHash).
upgradeChecked(password, encodedHash, salt, c) ==
    IF c.panic
    THEN [hash |-> << >>, didUpgrade |-> FALSE, err |-> NoErr,
          panic |-> TRUE, hashed |-> FALSE]
    ELSE IF c.err # NoErr
    THEN [hash |-> << >>, didUpgrade |-> FALSE, err |-> "password verification failed",
          panic |-> FALSE, hashed |-> FALSE]
    ELSE IF ~c.ok
    THEN [hash |-> << >>, didUpgrade |-> FALSE,
          err |-> "password does not match stored hash",
          panic |-> FALSE, hashed |-> FALSE]
    ELSE upgradeParsed(password, encodedHash, salt, parsePHCString(encodedHash))

UpgradeHashIfNeededUnverified(password, encodedHash, salt) ==
    upgradeParsed(password, encodedHash, salt, parsePHCString(encodedHash))

UpgradeHashIfNeeded(password, encodedHash, salt) ==
    upgradeChecked(password, encodedHash, salt, CheckPassword(password, encodedHash))

----------------------------------------------------------------------------
(* Byte buffers of the engine.  A buffer is recorded with what it was made *)
(* for and the bytes it holds when the call that made it returns.          *)

zeroBytes(data) == [i \in 1..Len(data) |-> 0]

Buffer(of, bytes) == [of |-> of, bytes |-> bytes]

\* Argon2Hash.zero on the Salt and Hash buffers of the struct.
zero(buffers) == [i \in 1..Len(buffers) |-> Buffer(buffers[i].of, zeroBytes(buffers[i].bytes))]

\* Where the decoder stops on corrupt input c: the first character outside
\* the alphabet, or the dangling last character.
firstFault(c) ==
    IF \E i \in 1..Len(c) : ~IsB64(c[i])
    THEN CHOOSE i \in 1..Len(c) : ~IsB64(c[i]) /\ \A j \in 1..(i - 1) : IsB64(c[j])
    ELSE Len(c)

\* What DecodeString wrote into the buffer it allocated: every byte of the
\* input, or, on corrupt input, the bytes of the whole quanta before the
\* fault.
decodedBytes(c) ==
    IF decodeQuanta(c).ok THEN B64DecodeVals(c)
    ELSE B64DecodeVals(SubSeq(c, 1, 4 * ((firstFault(c) - 1) \div 4)))

DecodeBuffer(c) == decodedBytes(SkipNewlines(c))

\* The buffers decodeSaltAndHash allocated, as they are when it returns:
\* the key is not decoded when the salt fails.
decodeSaltAndHashBuffers(saltPart, hashPart) ==
    IF ~B64Decode(saltPart).ok THEN <<Buffer("salt", DecodeBuffer(saltPart))>>
    ELSE <<Buffer("salt", DecodeBuffer(saltPart)), Buffer("key", DecodeBuffer(hashPart))>>

\* The buffers parsePHCString allocated, as they are when it returns.
parsePHCStringBuffers(parts) ==
    IF Len(parts) # 6 THEN << >>
    ELSE IF ~parseAlgorithm(parts[2]) THEN << >>
    ELSE IF ~parseVersion(parts[3]).ok THEN << >>
    ELSE IF ~parseParameters(parts[4]).ok THEN << >>
    ELSE decodeSaltAndHashBuffers(parts[5], parts[6])

\* passwordBytes, salt and derivedHash of HashPassword after its deferred
\* calls of zeroBytes.
HashPasswordBuffers(password, salt) ==
    IF validatePasswordInput(password) # NoErr THEN << >>
    ELSE <<Buffer("password", zeroBytes(password)), Buffer("salt", zeroBytes(salt)),
           Buffer("key", zeroBytes([i \in 1..defaultKeyLength |-> 0]))>>

\* CheckPassword from the parse on: c is what the call returns, pb the
\* buffers of its parsePHCString.  storedHash.zero() is deferred only once
\* the parse succeeded; derivedHash exists unless IDKey panicked.
verifyBuffers(c, pb) ==
    IF c.err # NoErr THEN pb
    ELSE IF c.panic THEN zero(pb)
    ELSE zero(pb) \o <<Buffer("key", zeroBytes(pb[2].bytes))>>

CheckPasswordBuffers(password, encodedHash) ==
    IF validatePasswordInput(password) # NoErr THEN << >>
    ELSE <<Buffer("password", zeroBytes(password))>>
         \o verifyBuffers(CheckPassword(password, encodedHash),
                          parsePHCStringBuffers(Split(encodedHash, "$")))

\* UpgradeHashIfNeeded: the buffers of its CheckPassword, of its own parse
\* (zeroed by the deferred storedHash.zero()) and of its HashPassword; u is
\* what the call returns.
upgradeBuffers(password, encodedHash, salt, u, c) ==
    IF c.panic \/ c.err # NoErr \/ ~c.ok THEN << >>
    ELSE zero(parsePHCStringBuffers(Split(encodedHash, "$")))
         \o (IF u.hashed THEN HashPasswordBuffers(password, salt) ELSE << >>)

UpgradeHashIfNeededBuffers(password, encodedHash, salt) ==
    CheckPasswordBuffers(password, encodedHash)
    \o upgradeBuffers(password, encodedHash, salt,
                      UpgradeHashIfNeeded(password, encodedHash, salt),
                      CheckPassword(password, encodedHash))

----------------------------------------------------------------------------
(* Inputs of the password engine *)

PwPass == <<112, 97, 115, 115>>
PwPasS == <<112, 97, 115, 83>>
PwPassX == <<112, 97, 115, 115, 120>>
PwAbc == <<97, 98, 99>>
PwEmpty == << >>

ValidPasswords == {PwPass, PwPasS, PwPassX}
Passwords == ValidPasswords \cup {PwAbc, PwEmpty}

\* A record as an earlier or later configuration of the engine wrote it:
\* the same codec and KDF under other cost parameters and buffer lengths.
RecordUnder(password, salt, memory, iterations, parallelism, keyLen) ==
    PHCFormat(algorithmName, argon2Version, memory, iterations, parallelism, salt,
              IDKey(password, salt, iterations, memory, parallelism, keyLen))

OtherParams ==
    { <<32768, 3, 2, 32>>, <<65536, 2, 2, 32>>, <<65536, 3, 1, 32>>,
      <<131072, 2, 4, 32>>, <<131072, 4, 4, 32>>, <<65536, 3, 2, 16>> }

OtherRecords ==
    { [str |-> RecordUnder(PwPass, generateSalt(1), c[1], c[2], c[3], c[4]),
       owner |-> PwPass, kind |-> "other"] : c \in OtherParams }

MalformedStrings ==
    { << >>,
      <<"$">> \o algorithmName \o <<"$", "v", "=", "1", "9", "$", "m", "=", "8">>,
      PHCFormat(<<"a", "r", "g", "o", "n", "2", "i">>, argon2Version, defaultMemory,
                defaultIterations, defaultParallelism, generateSalt(1),
                IDKey(PwPass, generateSalt(1), 3, 65536, 2, 32)),
      PHCFormat(algorithmName, argon2Version, defaultMemory, 0, defaultParallelism,
                generateSalt(1), IDKey(PwPass, generateSalt(1), 3, 65536, 2, 32)) }

MalformedRecords ==
    { [str |-> s, owner |-> PwEmpty, kind |-> "malformed"] : s \in MalformedStrings }

\* Text put together the way the codec lays a record out, from segments
\* that need not be well formed.
Assemble(prefix, alg, version, params, salt, hash) ==
    prefix \o <<"$">> \o alg \o <<"$">> \o version \o <<"$">> \o params
    \o <<"$">> \o salt \o <<"$">> \o hash

GoodVersion == <<"v", "=", "1", "9">>
GoodCosts == <<"m", "=", "6", "5", "5", "3", "6", ",", "t", "=", "3">>
GoodParams == GoodCosts \o <<",", "p", "=", "2">>
GoodSalt == B64Encode(generateSalt(1))
GoodKey == B64Encode(IDKey(PwPass, generateSalt(1), 3, 65536, 2, 32))

\* Strings with one fault each; fault names what is wrong with the string.
CraftedInputs ==
    { [fault |-> "segments",
       str |-> <<"$">> \o algorithmName \o <<"$">> \o GoodVersion \o <<"$">>
               \o GoodParams \o <<"$">> \o GoodSalt],
      [fault |-> "segments",
       str |-> Assemble(<< >>, algorithmName, GoodVersion, GoodParams, GoodSalt,
                        GoodKey \o <<"$">>)],
      [fault |-> "algorithm",
       str |-> Assemble(<< >>, <<"a", "r", "g", "o", "n", "2", "d">>, GoodVersion,
                        GoodParams, GoodSalt, GoodKey)],
      [fault |-> "version",
       str |-> Assemble(<< >>, algorithmName, <<"v", "=", "1", "6">>, GoodParams,
                        GoodSalt, GoodKey)],
      [fault |-> "version",
       str |-> Assemble(<< >>, algorithmName, <<"v", "=", "x">>, GoodParams,
                        GoodSalt, GoodKey)],
      [fault |-> "nonnumeric",
       str |-> Assemble(<< >>, algorithmName, GoodVersion,
                        <<"m", "=", "6", "5", "5", "3", "6", ",", "t", "=", "x",
                          ",", "p", "=", "2">>, GoodSalt, GoodKey)],
      [fault |-> "nonnumeric",
       str |-> Assemble(<< >>, algorithmName, GoodVersion,
                        <<"m", "=", "-", "1", ",", "t", "=", "3", ",", "p", "=", "2">>,
                        GoodSalt, GoodKey)],
      [fault |-> "missingkey",
       str |-> Assemble(<< >>, algorithmName, GoodVersion, GoodCosts, GoodSalt, GoodKey)],
      [fault |-> "base64",
       str |-> Assemble(<< >>, algorithmName, GoodVersion, GoodParams,
                        <<"!">> \o Tail(GoodSalt), GoodKey)],
      [fault |-> "base64",
       str |-> Assemble(<< >>, algorithmName, GoodVersion, GoodParams, GoodSalt,
                        GoodKey \o <<"=">>)],
      [fault |-> "base64",
       str |-> Assemble(<< >>, algorithmName, GoodVersion, GoodParams,
                        Tail(GoodSalt), GoodKey)],
      [fault |-> "base64",
       str |-> Assemble(<< >>, algorithmName, GoodVersion, GoodParams, GoodSalt,
                        <<Head(GoodKey), "\n">> \o Tail(GoodKey))],
      [fault |-> "parallelism above 255",
       str |-> Assemble(<< >>, algorithmName, GoodVersion,
                        GoodCosts \o <<",", "p", "=", "2", "5", "8">>, GoodSalt, GoodKey)],
      [fault |-> "out of range",
       str |-> Assemble(<< >>, algorithmName, GoodVersion,
                        <<"m", "=", "4", "2", "9", "4", "9", "6", "7", "2", "9", "6",
                          ",", "t", "=", "3", ",", "p", "=", "2">>, GoodSalt, GoodKey)],
      [fault |-> "no version prefix",
       str |-> Assemble(<< >>, algorithmName, <<"1", "9">>, GoodParams, GoodSalt, GoodKey)],
      [fault |-> "repeated key",
       str |-> Assemble(<< >>, algorithmName, GoodVersion,
                        GoodParams \o <<",", "m", "=", "8">>, GoodSalt, GoodKey)],
      [fault |-> "unknown key",
       str |-> Assemble(<< >>, algorithmName, GoodVersion,
                        GoodParams \o <<",", "x", "=", "1">>, GoodSalt, GoodKey)],
      [fault |-> "leading text",
       str |-> Assemble(<<"x">>, algorithmName, GoodVersion, GoodParams, GoodSalt,
                        GoodKey)] }

CraftedRecords ==
    { [str |-> a.str, owner |-> PwEmpty, kind |-> "crafted"] : a \in CraftedInputs }

StoredInputs == OtherRecords \cup MalformedRecords \cup CraftedRecords

NoCall == [op |-> "none", password |-> << >>, inHash |-> << >>, inKind |-> "none",
           inOwner |-> << >>, ok |-> FALSE, err |-> NoErr, panic |-> FALSE,
           hash |-> << >>, didUpgrade |-> FALSE, hashed |-> FALSE, parsed |-> NoHash,
           buffers |-> << >>]

----------------------------------------------------------------------------
(* Calls of the password engine *)

DoHashPassword(p, salt) ==
    \E r \in {HashPassword(p, salt)} :
        /\ last' = [NoCall EXCEPT !.op = "hash", !.password = p, !.inHash = stored.str,
                                  !.inKind = stored.kind, !.inOwner = stored.owner,
                                  !.err = r.err, !.hash = r.hash,
                                  !.hashed = TRUE,
                                  !.buffers = HashPasswordBuffers(p, salt)]
        /\ stored' = IF r.err = NoErr
                     THEN [str |-> r.hash, owner |-> p, kind |-> "hashed"]
                     ELSE stored

DoCheckPassword(q) ==
    \E r \in {CheckPassword(q, stored.str)} :
        /\ last' = [NoCall EXCEPT !.op = "check", !.password = q, !.inHash = stored.str,
                                  !.inKind = stored.kind, !.inOwner = stored.owner,
                                  !.ok = r.ok, !.err = r.err, !.panic = r.panic,
                                  !.buffers = CheckPasswordBuffers(q, stored.str)]
        /\ stored' = stored

\* The caller stores the new hash when told to, and the store may fail.
DoUpgradeHashIfNeeded(q, salt, saved) ==
    \E r \in {UpgradeHashIfNeeded(q, stored.str, salt)} :
        /\ last' = [NoCall EXCEPT !.op = "upgrade", !.password = q, !.inHash = stored.str,
                                  !.inKind = stored.kind, !.inOwner = stored.owner,
                                  !.ok = (r.err = NoErr /\ ~r.panic), !.err = r.err,
                                  !.panic = r.panic, !.hash = r.hash,
                                  !.didUpgrade = r.didUpgrade, !.hashed = r.hashed,
                                  !.buffers = UpgradeHashIfNeededBuffers(q, stored.str, salt)]
        /\ stored' = IF r.didUpgrade /\ saved
                     THEN [str |-> r.hash, owner |-> stored.owner, kind |-> "upgraded"]
                     ELSE stored

DoParsePHCString ==
    \E r \in {parsePHCString(stored.str)} :
        /\ last' = [NoCall EXCEPT !.op = "parse", !.inHash = stored.str,
                                  !.inKind = stored.kind, !.inOwner = stored.owner,
                                  !.ok = r.ok, !.parsed = r.hash,
                                  !.err = IF r.ok THEN NoErr ELSE "invalid hash format"]
        /\ stored' = stored

\* The record decoded from the stored string and encoded again.
reencode(r) == IF r.ok THEN encodePHCString(r.hash.Salt, r.hash.Hash) ELSE << >>

DoReencode ==
    \E r \in {parsePHCString(stored.str)} :
        /\ last' = [NoCall EXCEPT !.op = "reencode", !.inHash = stored.str,
                                  !.inKind = stored.kind, !.inOwner = stored.owner,
                                  !.ok = r.ok, !.parsed = r.hash, !.hash = reencode(r)]
        /\ stored' = stored

----------------------------------------------------------------------------
(* The teachers table and the Teacher struct *)

\* A row of the teachers table.  hash_null tells a NULL password_hash from
\* an empty one; pw and via are history: the password the account's owner
\* chose and how the row came to be.
NoRow == [id |-> 0, first_name |-> "", email |-> "", role |-> "", password_hash |-> << >>,
          hash_null |-> TRUE, is_active |-> FALSE, password_changed_at |-> NoTime,
          pw |-> << >>, via |-> "none"]

\* models.Teacher, the fields the handlers and Protect use.
NoTeacher == [ID |-> 0, Email |-> "", Role |-> "", PasswordHash |-> << >>,
              PasswordChangedAt |-> NoTime, IsActive |-> FALSE]

\* A request's session_token cookie and its Authorization header, the
\* header as the text scheme \o rest.
NoCookie == [present |-> FALSE, value |-> EmptyString]
NoHeader == [present |-> FALSE, scheme |-> "", rest |-> EmptyString]

\* A request body: JSON that decodes into []map[string]interface{} or not.
NoBody == [valid |-> FALSE, updates |-> << >>]

\* cookie and header are the request's; didUpgrade, saved and storedAfter
\* are what LoginTeacher did about the hash: whether it was told to store a
\* new one, whether the UPDATE succeeded, and the hash the row holds when
\* the handler returns.  body and commitOk are the input of a bulk patch,
\* updatedIds its answer, execs the ids its UPDATE statements were run for,
\* before the table as the request found it; bodies are the JSON documents
\* LoginTeacher wrote to the response, in order, status being that of the
\* first WriteHeader.
NoResp == [handler |-> "none", status |-> 0, message |-> "", nextCalls |-> 0,
           ctxUser |-> NoTeacher, token |-> EmptyString, source |-> "none",
           claimsOk |-> FALSE, rowFound |-> FALSE, row |-> NoRow,
           cookieSet |-> FALSE, email |-> "", password |-> << >>,
           hashedPwd |-> << >>, at |-> 0,
           cookie |-> NoCookie, header |-> NoHeader,
           didUpgrade |-> FALSE, saved |-> FALSE, storedAfter |-> << >>,
           body |-> NoBody, commitOk |-> FALSE, updatedIds |-> << >>,
           execs |-> << >>, before |-> << >>, bodies |-> << >>]

\* A document written by WriteError or WriteJSON; token is the data's token.
Body(code, message, token) == [statusCode |-> code, message |-> message, token |-> token]

Emails == {"a@school", "b@school"}
RegisterPasswords == {PwPass, PwAbc, PwEmpty}
LoginPasswords == {PwPass, PwPasS}

\* The column defaults of the table are not fixed by the program: they are
\* unknown until the first INSERT that relies on them.
UnknownSchema == [known |-> FALSE, hashNull |-> FALSE, activeDefault |-> FALSE]
Schemas == {[known |-> TRUE, hashNull |-> n, activeDefault |-> a] : n, a \in BOOLEAN}

\* The account the table starts with, its hash written under weaker cost
\* parameters than the current defaults.
SeedHash == RecordUnder(PwPass, generateSalt(1), 32768, 3, 2, 32)

\* The results of the engine on the inputs the server can meet, computed
\* once: HashPassword per password and salt, UpgradeHashIfNeeded per
\* password, stored hash and salt.
HashPasswordOf ==
    [p \in Passwords, k \in 1..NumSalts |-> HashPassword(p, generateSalt(k))]

ServerHashes ==
    {SeedHash, << >>} \cup {HashPasswordOf[p, k].hash : p \in ValidPasswords, k \in 1..NumSalts}

UpgradeHashIfNeededOf ==
    [p \in LoginPasswords, h \in ServerHashes, k \in 1..NumSalts |->
        UpgradeHashIfNeeded(p, h, generateSalt(k))]

\* SELECT id, first_name, last_name, email, class, subject: the struct comes
\* back with every other field at its zero value.
GetByID(id) ==
    IF id \in DOMAIN teachers
    THEN [ok |-> TRUE,
          teacher |-> [NoTeacher EXCEPT !.ID = teachers[id].id,
                                        !.Email = teachers[id].email]]
    ELSE [ok |-> FALSE, teacher |-> NoTeacher]

ChangedPasswordAfter(t, jwtTimestamp) ==
    IF t.PasswordChangedAt = NoTime THEN FALSE
    ELSE t.PasswordChangedAt > jwtTimestamp

\* INSERT INTO teachers (first_name, last_name, email, class, subject): the
\* columns not listed take the defaults sch of the table.
CreateBulk(id, t, sch) ==
    [NoRow EXCEPT !.id = id, !.email = t.Email, !.role = "teacher",
                  !.hash_null = sch.hashNull,
                  !.is_active = sch.activeDefault,
                  !.pw = t.pw, !.via = "register"]

----------------------------------------------------------------------------
(* Start of the process *)

Running == process.state = "running"

\* The package initialisers run once, before main registers any route.
DoInit ==
    /\ process.state = "starting"
    /\ process' = [process EXCEPT !.jwtKey = init(process.env).jwtKey,
                                  !.state = init(process.env).state]
    /\ UNCHANGED <<now, steps, schema, teachers, nextId, issued, loggedOut, resp>>

----------------------------------------------------------------------------
(* Handlers *)

Tick(d) ==
    /\ steps < MaxSteps
    /\ now' = now + d
    /\ steps' = steps + 1
    /\ UNCHANGED <<schema, teachers, nextId, issued, loggedOut, resp>>

\* k numbers the salt generateSalt returns in this request.
RegisterTeacher(email, password, k) ==
    \E h \in {HashPasswordOf[password, k]} :
    LET newTeacher == [NoTeacher EXCEPT !.Email = email, !.PasswordHash = h.hash]
        out == [NoResp EXCEPT !.handler = "register", !.email = email,
                              !.password = password, !.at = now] IN
    /\ UNCHANGED <<now, issued, loggedOut>>
    /\ IF Len(password) = 0
       THEN /\ resp' = [out EXCEPT !.status = 400, !.message = "Validation Failed"]
            /\ UNCHANGED <<steps, schema, teachers, nextId>>
       ELSE IF h.err # NoErr
       THEN /\ resp' = [out EXCEPT !.status = 500,
                                   !.message = "Server error processing credentials"]
            /\ UNCHANGED <<steps, schema, teachers, nextId>>
       ELSE IF \E i \in DOMAIN teachers : teachers[i].email = email
       THEN /\ resp' = [out EXCEPT !.status = 409, !.message = "repo: duplicate email",
                                   !.hashedPwd = h.hash]
            /\ UNCHANGED <<steps, schema, teachers, nextId>>
       ELSE /\ steps < MaxSteps
            /\ nextId <= MaxTeachers
            /\ schema' \in IF schema.known THEN {schema} ELSE Schemas
            /\ teachers' = teachers @@
                  (nextId :> CreateBulk(nextId, [Email |-> email, pw |-> password], schema'))
            /\ nextId' = nextId + 1
            /\ steps' = steps + 1
            /\ resp' = [out EXCEPT !.status = 201, !.message = "Registration successful",
                                   !.hashedPwd = h.hash,
                                   !.ctxUser = [newTeacher EXCEPT !.ID = nextId]]

loginVerifiedFailsUnsaved(id, u, token, out, saved) ==
    IF u.panic
    THEN /\ resp' = [out EXCEPT !.status = 0, !.message = "panic",
                                !.rowFound = TRUE, !.row = teachers[id]]
         /\ UNCHANGED <<steps, teachers, issued>>
    ELSE IF u.err # NoErr
    THEN /\ resp' = [out EXCEPT !.status = 401,
                                !.message = "Invalid email or password",
                                !.rowFound = TRUE, !.row = teachers[id],
                                !.bodies = <<Body(401, "Invalid email or password",
                                                  EmptyString)>>]
         /\ UNCHANGED <<steps, teachers, issued>>
    ELSE IF u.didUpgrade /\ ~saved
    THEN /\ resp' = [out EXCEPT !.status = 500, !.message = "server error",
                                !.rowFound = TRUE, !.row = teachers[id],
                                !.didUpgrade = TRUE,
                                !.storedAfter = teachers[id].password_hash]
         /\ UNCHANGED <<steps, teachers, issued>>
    ELSE IF token.form = "empty"
    THEN /\ steps < MaxSteps
         /\ u.didUpgrade \/ saved
         /\ teachers' = IF u.didUpgrade
                        THEN [teachers EXCEPT ![id].password_hash = u.hash]
                        ELSE teachers
         /\ steps' = IF teachers' = teachers THEN steps ELSE steps + 1
         /\ issued' = issued
         /\ resp' = [out EXCEPT !.status = 500, !.message = "Failed to create session",
                                !.rowFound = TRUE, !.row = teachers[id],
                                !.token = token, !.cookieSet = TRUE,
                                !.didUpgrade = u.didUpgrade, !.saved = saved,
                                !.storedAfter = teachers'[id].password_hash,
                                !.bodies = <<Body(500, "Failed to create session",
                                                  EmptyString),
                                             Body(200, "Login successfully", token)>>]
    ELSE /\ steps < MaxSteps
         /\ token \in issued \/ Cardinality(issued) < MaxTokens
         /\ u.didUpgrade \/ saved
         /\ teachers' = IF u.didUpgrade
                        THEN [teachers EXCEPT ![id].password_hash = u.hash]
                        ELSE teachers
         /\ issued' = issued \cup {token}
         /\ steps' = steps + 1
         /\ resp' = [out EXCEPT !.status = 200, !.message = "Login successfully",
                                !.rowFound = TRUE, !.row = teachers[id],
                                !.token = token, !.cookieSet = TRUE,
                                !.didUpgrade = u.didUpgrade, !.saved = saved,
                                !.storedAfter = teachers'[id].password_hash,
                                !.bodies = <<Body(200, "Login successfully", token)>>]

\* The handler from the call of UpgradeHashIfNeeded on: u is what the call
\* returned for the row id, saved tells whether the UPDATE that stores an
\* upgraded hash succeeds, token is what GenerateJWT returned: the empty
\* string when it returned an error.  After WriteError for that error the
\* handler does not return: it goes on to SetCookie and WriteJSON.
loginVerified(id, u, token, out, saved) ==
    IF u.panic
    THEN /\ resp' = [out EXCEPT !.status = 0, !.message = "panic",
                                !.rowFound = TRUE, !.row = teachers[id]]
         /\ UNCHANGED <<steps, teachers, issued>>
    ELSE IF u.err # NoErr
    THEN /\ resp' = [out EXCEPT !.status = 401,
                                !.message = "Invalid email or password",
                                !.rowFound = TRUE, !.row = teachers[id],
                                !.bodies = <<Body(401, "Invalid email or password",
                                                  EmptyString)>>]
         /\ UNCHANGED <<steps, teachers, issued>>
    ELSE IF token.form = "empty"
    THEN /\ steps < MaxSteps
         /\ u.didUpgrade \/ saved
         /\ teachers' = IF u.didUpgrade /\ saved
                        THEN [teachers EXCEPT ![id].password_hash = u.hash]
                        ELSE teachers
         /\ steps' = IF teachers' = teachers THEN steps ELSE steps + 1
         /\ issued' = issued
         /\ resp' = [out EXCEPT !.status = 500, !.message = "Failed to create session",
                                !.rowFound = TRUE, !.row = teachers[id],
                                !.token = token, !.cookieSet = TRUE,
                                !.didUpgrade = u.didUpgrade, !.saved = saved,
                                !.storedAfter = teachers'[id].password_hash,
                                !.bodies = <<Body(500, "Failed to create session",
                                                  EmptyString),
                                             Body(200, "Login successfully", token)>>]
    ELSE /\ steps < MaxSteps
         /\ token \in issued \/ Cardinality(issued) < MaxTokens
         /\ u.didUpgrade \/ saved
         /\ teachers' = IF u.didUpgrade /\ saved
                        THEN [teachers EXCEPT ![id].password_hash = u.hash]
                        ELSE teachers
         /\ issued' = issued \cup {token}
         /\ steps' = steps + 1
         /\ resp' = [out EXCEPT !.status = 200, !.message = "Login successfully",
                                !.rowFound = TRUE, !.row = teachers[id],
                                !.token = token, !.cookieSet = TRUE,
                                !.didUpgrade = u.didUpgrade, !.saved = saved,
                                !.storedAfter = teachers'[id].password_hash,
                                !.bodies = <<Body(200, "Login successfully", token)>>]

\* The handler once the row id was read for the email; signOk tells whether
\* SignedString succeeds in GenerateJWT.
loginFound(id, password, k, out, saved, signOk) ==
    IF teachers[id].hash_null
    THEN /\ resp' = [out EXCEPT !.status = 500, !.message = "server error",
                                !.rowFound = TRUE, !.row = teachers[id],
                                !.bodies = <<Body(500, "server error", EmptyString)>>]
         /\ UNCHANGED <<steps, teachers, issued>>
    ELSE IF ~teachers[id].is_active
    THEN /\ resp' = [out EXCEPT !.status = 403,
                         !.message = "Account is deactived. Please contact support",
                         !.rowFound = TRUE, !.row = teachers[id],
                         !.bodies = <<Body(403, "Account is deactived. Please contact support",
                                           EmptyString)>>]
         /\ UNCHANGED <<steps, teachers, issued>>
    ELSE loginVerified(id, UpgradeHashIfNeededOf[password, teachers[id].password_hash, k],
                       IF signOk
                       THEN GenerateJWT(Itoa(teachers[id].id), teachers[id].role, now)
                       ELSE EmptyString,
                       out, saved)

\* k numbers the salt generateSalt returns if the hash is upgraded.
LoginTeacher(email, password, k, saved, signOk) ==
    LET found == {i \in DOMAIN teachers : teachers[i].email = email}
        out == [NoResp EXCEPT !.handler = "login", !.email = email,
                              !.password = password, !.at = now] IN
    /\ UNCHANGED <<now, schema, nextId, loggedOut>>
    /\ IF found = {}
       THEN /\ resp' = [out EXCEPT !.status = 401, !.message = "Invalid email or password",
                                   !.bodies = <<Body(401, "Invalid email or password",
                                                     EmptyString)>>]
            /\ UNCHANGED <<steps, teachers, issued>>
       ELSE \E id \in found : loginFound(id, password, k, out, saved, signOk)

\* The handler only overwrites the client's cookie; loggedOut remembers
\* which tokens that client held.
Logout ==
    /\ resp' = [NoResp EXCEPT !.handler = "logout", !.status = 200,
                              !.message = "Logged out successfully",
                              !.cookieSet = TRUE, !.at = now]
    /\ loggedOut' = issued
    /\ UNCHANGED <<now, steps, schema, teachers, nextId, issued>>

extractTokenHeaderFirst(cookie, header) ==
    IF header.present /\ header.scheme = "Bearer " /\ header.rest.form # "empty"
    THEN header.rest
    ELSE IF cookie.present THEN cookie.value
    ELSE EmptyString

\* The candidate token: the cookie's value when the cookie is there and not
\* empty, else what follows "Bearer " in the header.
extractToken(cookie, header) ==
    IF cookie.present /\ cookie.value.form # "empty" THEN cookie.value
    ELSE IF header.present /\ header.scheme = "Bearer " THEN header.rest
    ELSE EmptyString

\* What Protect answers, or, with nextCalls = 1, what it hands to the next
\* handler.
protectResponse(cookie, header) ==
    LET tokenString == extractToken(cookie, header)
        source == IF tokenString.form = "empty" THEN "none"
                  ELSE IF cookie.present /\ tokenString = cookie.value THEN "cookie"
                  ELSE "header"
        v == ValidateJWT(tokenString, now)
        userID == Atoi(v.claims.user_id)
        g == GetByID(userID)
        out == [NoResp EXCEPT !.handler = "protect", !.token = tokenString,
                              !.source = source, !.at = now,
                              !.cookie = cookie, !.header = header] IN
    IF tokenString.form = "empty"
    THEN [out EXCEPT !.status = 401, !.message = "You are not logged in!"]
    ELSE IF ~v.ok
    THEN [out EXCEPT !.status = 401, !.message = "Invalid or expired token"]
    ELSE IF ~g.ok
    THEN [out EXCEPT !.status = 401, !.claimsOk = TRUE,
                     !.message = "The user belonging to this token no longer exists."]
    ELSE IF v.claims.iat # NoTime /\ ChangedPasswordAfter(g.teacher, v.claims.iat)
    THEN [out EXCEPT !.status = 401, !.claimsOk = TRUE, !.rowFound = TRUE,
                     !.row = teachers[userID],
                     !.message = "User recently changed password! Please log in again."]
    ELSE [out EXCEPT !.status = 200, !.claimsOk = TRUE, !.rowFound = TRUE,
                     !.row = teachers[userID], !.message = "next",
                     !.nextCalls = 1, !.ctxUser = g.teacher]

\* Protect in front of a handler that answers nothing itself.
Protect(cookie, header) ==
    /\ UNCHANGED <<now, steps, schema, teachers, nextId, issued, loggedOut>>
    /\ resp' = protectResponse(cookie, header)

----------------------------------------------------------------------------
(* The teachers routes.  A handler is given the request as it reaches it:  *)
(* req is NoResp with the request's cookie and header when the route is    *)
(* registered bare, and what Protect handed on when it is wrapped.         *)

\* registerTeachersRoutes: the handler of each pattern and whether it is
\* wrapped in protect(...).
registerTeachersRoutes ==
    [pattern \in {"GET /teachers", "POST /teachers", "PATCH /teachers", "DELETE /teachers",
                  "GET /teachers/{id}", "PUT /teachers/{id}", "PATCH /teachers/{id}",
                  "DELETE /teachers/{id}"} |->
        CASE pattern = "GET /teachers" -> [handler |-> "GetTeachers", protect |-> TRUE]
          [] pattern = "POST /teachers" -> [handler |-> "CreateTeachers", protect |-> TRUE]
          [] pattern = "PATCH /teachers" -> [handler |-> "BulkPatchTeachers", protect |-> FALSE]
          [] pattern = "DELETE /teachers" -> [handler |-> "BulkDeleteTeachers", protect |-> FALSE]
          [] pattern = "GET /teachers/{id}" -> [handler |-> "GetTeacherByID", protect |-> FALSE]
          [] pattern = "PUT /teachers/{id}" -> [handler |-> "UpdateTeacherFull", protect |-> FALSE]
          [] pattern = "PATCH /teachers/{id}" -> [handler |-> "PatchTeacher", protect |-> FALSE]
          [] OTHER -> [handler |-> "DeleteTeacher", protect |-> FALSE]]

\* DELETE /teachers/{id}
DeleteTeacher(req, id) ==
    LET out == [req EXCEPT !.handler = "delete", !.at = now, !.before = teachers] IN
    /\ UNCHANGED <<now, schema, nextId, issued, loggedOut>>
    /\ IF id \in DOMAIN teachers
       THEN /\ steps < MaxSteps
            /\ steps' = steps + 1
            /\ teachers' = [i \in DOMAIN teachers \ {id} |-> teachers[i]]
            /\ resp' = [out EXCEPT !.status = 204, !.message = ""]
       ELSE /\ resp' = [out EXCEPT !.status = 404, !.message = "Teacher not found"]
            /\ UNCHANGED <<steps, teachers>>

\* POST /teachers with one teacher in the body; valid tells whether the body
\* decodes and passes ValidateBatch.
CreateTeachers(req, email, valid) ==
    LET out == [req EXCEPT !.handler = "create", !.email = email, !.at = now,
                           !.before = teachers] IN
    /\ UNCHANGED <<now, issued, loggedOut>>
    /\ IF ~valid
       THEN /\ resp' = [out EXCEPT !.status = 400, !.message = "Validation failed"]
            /\ UNCHANGED <<steps, schema, teachers, nextId>>
       ELSE IF \E i \in DOMAIN teachers : teachers[i].email = email
       THEN /\ resp' = [out EXCEPT !.status = 409, !.message = "repo: duplicate email"]
            /\ UNCHANGED <<steps, schema, teachers, nextId>>
       ELSE /\ steps < MaxSteps
            /\ nextId <= MaxTeachers
            /\ schema' \in IF schema.known THEN {schema} ELSE Schemas
            /\ teachers' = teachers @@
                  (nextId :> [CreateBulk(nextId, [Email |-> email, pw |-> << >>], schema')
                                 EXCEPT !.via = "create"])
            /\ nextId' = nextId + 1
            /\ steps' = steps + 1
            /\ resp' = [out EXCEPT !.status = 201,
                                   !.message = "Teachers created successfully"]

\* The mux on a request for one of the teachers routes: a wrapped handler
\* runs only when Protect called next.
ServeTeachers(pattern, cookie, header, id, email, valid) ==
    LET route == registerTeachersRoutes[pattern]
        req == IF route.protect
               THEN [protectResponse(cookie, header) EXCEPT !.message = ""]
               ELSE [NoResp EXCEPT !.cookie = cookie, !.header = header] IN
    IF route.protect /\ protectResponse(cookie, header).nextCalls = 0
    THEN Protect(cookie, header)
    ELSE IF route.handler = "CreateTeachers" THEN CreateTeachers(req, email, valid)
    ELSE route.handler = "DeleteTeacher" /\ DeleteTeacher(req, id)

----------------------------------------------------------------------------
(* Bulk patch of the teachers table, internal/repository/teachers.go.      *)
(* A decoded JSON value is a number (float64, kept in tenths) or a string. *)

Num(tenths) == [t |-> "number", n |-> tenths, s |-> ""]
Str(text) == [t |-> "string", n |-> 0, s |-> text]

\* int(idFloat): the fraction is cut off, toward zero.
truncate(tenths) == IF tenths >= 0 THEN tenths \div 10 ELSE 0 - ((0 - tenths) \div 10)

allowedCols == {"first_name", "last_name", "email", "class", "subject"}

ErrInvalidInput == "invalid input data"
ErrNotFound == "resource not found"

\* UPDATE teachers SET <fields of updates> WHERE id = ? inside the
\* transaction whose view of the table is tx: a duplicate email is an error
\* of the statement, RowsAffected counts the rows the statement changed.
\* Of the allowed columns the rows of the model carry first_name and email.
execUpdate(tx, id, updates, fields) ==
    IF id \notin DOMAIN tx THEN [rows |-> 0, err |-> NoErr, tx |-> tx, exec |-> <<id>>]
    ELSE IF "email" \in fields
            /\ \E j \in DOMAIN tx \ {id} : tx[j].email = updates["email"].s
    THEN [rows |-> 0, err |-> "Duplicate entry", tx |-> tx, exec |-> <<id>>]
    ELSE [rows |-> IF \E k \in fields : tx[id][k] # updates[k].s THEN 1 ELSE 0,
          err |-> NoErr,
          tx |-> [tx EXCEPT
                    ![id].first_name =
                        IF "first_name" \in fields THEN updates["first_name"].s ELSE @,
                    ![id].email = IF "email" \in fields THEN updates["email"].s ELSE @],
          exec |-> <<id>>]

updateTeacherTxAlwaysExec(tx, id, updates) ==
    LET fields == {k \in DOMAIN updates : k # "id" /\ k \in allowedCols} IN
    IF \E k \in fields : updates[k].t # "string"
    THEN [rows |-> 0, err |-> "field expected string", tx |-> tx, exec |-> << >>]
    ELSE execUpdate(tx, id, updates, fields)

updateTeacherTx(tx, id, updates) ==
    LET fields == {k \in DOMAIN updates : k # "id" /\ k \in allowedCols} IN
    IF \E k \in fields : updates[k].t # "string"
    THEN [rows |-> 0, err |-> "field expected string", tx |-> tx, exec |-> << >>]
    ELSE IF fields = {}
    THEN [rows |-> 1, err |-> NoErr, tx |-> tx, exec |-> << >>]
    ELSE execUpdate(tx, id, updates, fields)

\* The loop of BulkPatch over the batch: tx is the transaction's view of the
\* table, updatedIds and execs what was collected so far.
RECURSIVE patchLoop(_, _, _, _)
patchStep(r, updates, updatedIds, execs, id) ==
    IF r.err # NoErr
    THEN [err |-> "patch failed", tx |-> r.tx, ids |-> updatedIds, execs |-> execs \o r.exec]
    ELSE IF r.rows = 0
    THEN [err |-> ErrNotFound, tx |-> r.tx, ids |-> updatedIds, execs |-> execs \o r.exec]
    ELSE patchLoop(r.tx, Tail(updates), Append(updatedIds, id), execs \o r.exec)

patchLoop(tx, updates, updatedIds, execs) ==
    IF updates = << >>
    THEN [err |-> NoErr, tx |-> tx, ids |-> updatedIds, execs |-> execs]
    ELSE IF ~("id" \in DOMAIN Head(updates) /\ Head(updates)["id"].t = "number")
    THEN [err |-> ErrInvalidInput, tx |-> tx, ids |-> updatedIds, execs |-> execs]
    ELSE patchStep(updateTeacherTx(tx, truncate(Head(updates)["id"].n), Head(updates)),
                   updates, updatedIds, execs, truncate(Head(updates)["id"].n))

\* The end of BulkPatch: r is what the loop left, table the committed rows
\* before the call; the deferred Rollback undoes tx unless Commit succeeded.
patched(r, table, commitOk) ==
    IF r.err # NoErr
    THEN [ids |-> << >>, err |-> r.err, table |-> table, execs |-> r.execs]
    ELSE IF ~commitOk
    THEN [ids |-> << >>, err |-> "failed to commit tx", table |-> table, execs |-> r.execs]
    ELSE [ids |-> r.ids, err |-> NoErr, table |-> r.tx, execs |-> r.execs]

BulkPatch(table, updates, commitOk) ==
    patched(patchLoop(table, updates, << >>, << >>), table, commitOk)

\* utils.ResponseError(w, err, "Bulk patch failed"): the status an error
\* maps to.
ResponseError(err) ==
    IF err = ErrNotFound THEN 404
    ELSE IF err = ErrInvalidInput THEN 400
    ELSE 500

\* PATCH /teachers
BulkPatchTeachers(body, commitOk) ==
    \E r \in {BulkPatch(teachers, body.updates, commitOk)} :
    LET out == [NoResp EXCEPT !.handler = "bulkpatch", !.body = body, !.at = now,
                              !.commitOk = commitOk, !.before = teachers] IN
    /\ UNCHANGED <<now, schema, nextId, issued, loggedOut>>
    /\ steps < MaxPatches
    /\ steps' = steps + 1
    /\ IF ~body.valid
       THEN /\ resp' = [out EXCEPT !.status = 400, !.message = "Invalid request payload"]
            /\ teachers' = teachers
       ELSE IF r.err # NoErr
       THEN /\ resp' = [out EXCEPT !.status = ResponseError(r.err),
                                   !.message = "Bulk patch failed", !.execs = r.execs]
            /\ teachers' = r.table
       ELSE /\ resp' = [out EXCEPT !.status = 200,
                                   !.message = "Teachers updated successfully",
                                   !.updatedIds = r.ids, !.execs = r.execs]
            /\ teachers' = r.table

----------------------------------------------------------------------------
(* Changes to the teachers table made outside these handlers: the account  *)
(* state is owned by the persistence layer; no route of the program writes *)
(* password_changed_at or is_active.                                       *)

PasswordChanged(id, password, k) ==
    /\ id \in DOMAIN teachers
    /\ steps < MaxSteps
    /\ HashPasswordOf[password, k].err = NoErr
    /\ teachers' = [teachers EXCEPT ![id].password_hash = HashPasswordOf[password, k].hash,
                                    ![id].hash_null = FALSE,
                                    ![id].password_changed_at = now,
                                    ![id].pw = password]
    /\ steps' = steps + 1
    /\ UNCHANGED <<now, schema, nextId, issued, loggedOut, resp>>

SetActive(id, active) ==
    /\ id \in DOMAIN teachers
    /\ steps < MaxSteps
    /\ teachers[id].is_active # active
    /\ teachers' = [teachers EXCEPT ![id].is_active = active]
    /\ steps' = steps + 1
    /\ UNCHANGED <<now, schema, nextId, issued, loggedOut, resp>>

----------------------------------------------------------------------------
(* Requests and the specification of the server *)

TickSteps == {1, TokenLifetime - 1}

TokenVariants(t) ==
    {[t EXCEPT !.alg = a] : a \in {"HS384", "RS256", "none"}}
    \cup {[t EXCEPT !.key = OtherKey], [t EXCEPT !.iat = NoTime]}

Candidates == issued \cup UNION {TokenVariants(t) : t \in issued} \cup {NotAToken}

Requests ==
    {[cookie |-> [present |-> TRUE, value |-> c], header |-> NoHeader] :
        c \in Candidates \cup {EmptyString}}
    \cup {[cookie |-> NoCookie, header |-> [present |-> TRUE, scheme |-> s, rest |-> c]] :
        s \in {"Bearer ", "Basic "}, c \in issued \cup {NotAToken, EmptyString}}
    \cup {[cookie |-> [present |-> TRUE, value |-> c],
           header |-> [present |-> TRUE, scheme |-> "Bearer ", rest |-> h]] :
        c \in {NotAToken, EmptyString}, h \in issued}
    \cup {[cookie |-> [present |-> TRUE, value |-> c],
           header |-> [present |-> TRUE, scheme |-> "Bearer ", rest |-> NotAToken]] :
        c \in issued}
    \cup {[cookie |-> NoCookie, header |-> NoHeader]}

\* The teachers routes whose handlers are modelled, and the requests made
\* for them: without credentials or with a minted token as the cookie.
ServedPatterns == {"POST /teachers", "DELETE /teachers/{id}"}

TeacherRequests ==
    {[cookie |-> NoCookie, header |-> NoHeader]}
    \cup {[cookie |-> [present |-> TRUE, value |-> c], header |-> NoHeader] : c \in issued}

NoStored == [str |-> << >>, owner |-> << >>, kind |-> "none"]

Init ==
    /\ stored = NoStored
    /\ last = NoCall
    /\ now = 0
    /\ steps = 0
    /\ schema = UnknownSchema
    /\ teachers = (1 :> [NoRow EXCEPT !.id = 1, !.email = "a@school", !.role = "admin",
                                      !.password_hash = SeedHash, !.hash_null = FALSE,
                                      !.is_active = TRUE, !.pw = PwPass, !.via = "seed"])
    /\ nextId = 2
    /\ issued = {}
    /\ loggedOut = {}
    /\ process \in {[env |-> e, jwtKey |-> NoKey, state |-> "starting"] : e \in {NoKey, SecretKey}}
    /\ resp = NoResp

Next ==
    \/ DoInit /\ UNCHANGED pwdVars
    \/ \E d \in TickSteps : Running /\ Tick(d) /\ UNCHANGED <<pwdVars, process>>
    \/ \E e \in Emails, p \in RegisterPasswords :
          Running /\ RegisterTeacher(e, p, 1) /\ UNCHANGED <<pwdVars, process>>
    \/ \E e \in Emails, p \in LoginPasswords, saved \in BOOLEAN, signOk \in BOOLEAN :
          Running /\ LoginTeacher(e, p, 2, saved, signOk) /\ UNCHANGED <<pwdVars, process>>
    \/ Running /\ Logout /\ UNCHANGED <<pwdVars, process>>
    \/ \E pattern \in ServedPatterns, r \in TeacherRequests, id \in 1..MaxTeachers,
          valid \in BOOLEAN :
          Running /\ ServeTeachers(pattern, r.cookie, r.header, id, "b@school", valid)
                  /\ UNCHANGED <<pwdVars, process>>
    \/ \E r \in Requests : Running /\ Protect(r.cookie, r.header) /\ UNCHANGED <<pwdVars, process>>
    \/ \E id \in 1..MaxTeachers :
          Running /\ PasswordChanged(id, PwPasS, 2) /\ UNCHANGED <<pwdVars, process>>
    \/ \E id \in 1..MaxTeachers, a \in BOOLEAN :
          Running /\ SetActive(id, a) /\ UNCHANGED <<pwdVars, process>>

Spec == Init /\ [][Next]_vars

----------------------------------------------------------------------------
(* Specification of the password engine on its own *)

InitPwd ==
    /\ stored \in StoredInputs
    /\ last = NoCall
    /\ now = 0
    /\ steps = 0
    /\ schema = UnknownSchema
    /\ teachers = << >>
    /\ nextId = 1
    /\ issued = {}
    /\ loggedOut = {}
    /\ process = [env |-> SecretKey, jwtKey |-> SecretKey, state |-> "running"]
    /\ resp = NoResp

NextPwd ==
    \/ \E p \in Passwords, salt \in Salts :
          DoHashPassword(p, salt) /\ UNCHANGED srvVars
    \/ \E q \in Passwords :
          DoCheckPassword(q) /\ UNCHANGED srvVars
    \/ \E q \in Passwords, salt \in Salts, saved \in BOOLEAN :
          DoUpgradeHashIfNeeded(q, salt, saved) /\ UNCHANGED srvVars
    \/ DoParsePHCString /\ UNCHANGED srvVars
    \/ DoReencode /\ UNCHANGED srvVars

SpecPwd == InitPwd /\ [][NextPwd]_vars

----------------------------------------------------------------------------
(* Specification of the bulk patch on its own *)

\* The elements a batch is made of: changes of an allowed column, elements
\* without any allowed column, and the faults the repository looks for.
PatchElements ==
    { [id |-> Num(10), first_name |-> Str("Ann")],
      [id |-> Num(20), email |-> Str("c@school")],
      [id |-> Num(20)],
      [id |-> Num(90), role |-> Str("admin")],
      [email |-> Str("c@school")],
      [id |-> Str("1"), first_name |-> Str("Ann")],
      [id |-> Num(10), first_name |-> Num(50)],
      [id |-> Num(90), first_name |-> Str("Ann")],
      [id |-> Num(15), first_name |-> Str("Bob")] }

RECURSIVE Batches(_)
Batches(n) ==
    IF n = 0 THEN {<< >>}
    ELSE Batches(n - 1)
         \cup {Append(b, e) : b \in {c \in Batches(n - 1) : Len(c) = n - 1}, e \in PatchElements}

Bodies == {NoBody} \cup {[valid |-> TRUE, updates |-> b] : b \in Batches(MaxBatch)}

PatchTable ==
    (1 :> [NoRow EXCEPT !.id = 1, !.email = "a@school", !.role = "admin",
                        !.password_hash = SeedHash, !.hash_null = FALSE,
                        !.is_active = TRUE, !.pw = PwPass, !.via = "seed"])
    @@ (2 :> [NoRow EXCEPT !.id = 2, !.first_name = "Ben", !.email = "b@school",
                           !.role = "teacher", !.password_hash = SeedHash,
                           !.hash_null = FALSE, !.is_active = TRUE, !.pw = PwPass,
                           !.via = "seed"])

InitPatch ==
    /\ stored = NoStored
    /\ last = NoCall
    /\ now = 0
    /\ steps = 0
    /\ schema = UnknownSchema
    /\ teachers = PatchTable
    /\ nextId = 3
    /\ issued = {}
    /\ loggedOut = {}
    /\ process = [env |-> SecretKey, jwtKey |-> SecretKey, state |-> "running"]
    /\ resp = NoResp

NextPatch ==
    \E body \in Bodies, commitOk \in BOOLEAN :
        BulkPatchTeachers(body, commitOk) /\ UNCHANGED <<pwdVars, process>>

SpecPatch == InitPatch /\ [][NextPatch]_vars

----------------------------------------------------------------------------
(* Properties *)

\* Was the password of the account in row r changed after the token tok was
\* issued, in whole seconds?
ChangedSince(r, tok) ==
    r.password_changed_at # NoTime /\ tok.iat # NoTime /\ r.password_changed_at > tok.iat

\* C1: a token issued for an account before the account's password changed
\* is rejected by Protect with 401 and the downstream handler is not run; a
\* token issued at or after the password change is accepted.
C1_PasswordChangeRejectsToken ==
    (resp.handler = "protect" /\ resp.token \in issued /\ resp.claimsOk /\ resp.rowFound)
        => IF ChangedSince(resp.row, resp.token)
           THEN resp.status = 401 /\ resp.nextCalls = 0
           ELSE resp.nextCalls = 1

\* C2: a request whose token is valid, whose account is found and whose
\* password has not changed since issuance is rejected with 403, without the
\* downstream handler, when the account is inactive.
C2_InactiveForbidden ==
    (resp.handler = "protect" /\ resp.claimsOk /\ resp.rowFound
        /\ ~ChangedSince(resp.row, resp.token) /\ ~resp.row.is_active)
        => (resp.status = 403 /\ resp.nextCalls = 0)

\* C3: after a successful RegisterTeacher the stored row holds the hash the
\* handler computed, and a following login with the registered password on
\* the active account issues a session token.
C3_RegisterStoresHash ==
    /\ (resp.handler = "register" /\ resp.status = 201)
          => \E i \in DOMAIN teachers :
                /\ teachers[i].email = resp.email
                /\ ~teachers[i].hash_null
                /\ teachers[i].password_hash = resp.hashedPwd
    /\ (resp.handler = "login" /\ resp.rowFound /\ resp.row.via = "register"
            /\ resp.row.password_changed_at = NoTime /\ resp.row.is_active
            /\ resp.password = resp.row.pw)
          => (resp.status = 200 /\ resp.token.form = "jwt")

\* C4: a token whose header names any algorithm other than HS256 is never
\* accepted, whatever key signed it.
C4_OnlyHS256Accepted ==
    (resp.handler = "protect" /\ resp.token.form = "jwt" /\ resp.token.alg # "HS256")
        => (~resp.claimsOk /\ resp.nextCalls = 0)

\* C5: when CheckPassword fails or returns false, UpgradeHashIfNeeded returns
\* an error, an empty hash and didUpgrade = false, and does not call
\* HashPassword.
C5_UpgradeNeverBypassesVerify ==
    (last.op = "upgrade"
        /\ LET c == CheckPassword(last.password, last.inHash) IN
           c.panic \/ c.err # NoErr \/ ~c.ok)
        => /\ last.hash = << >>
           /\ ~last.didUpgrade
           /\ ~last.hashed
           /\ last.panic \/ last.err # NoErr

C5_Witness ==
    /\ last.op = "upgrade"
    /\ last.inKind = "other"
    /\ last.password \in ValidPasswords
    /\ last.password # last.inOwner
    /\ last.err # NoErr

\* C6: a token whose expiresAt is not after the current time is rejected,
\* whatever its signature; a token minted by GenerateJWT is accepted by
\* ValidateJWT exactly while the current time is before its expiresAt.
C6_ExpiredRejected ==
    /\ (resp.handler = "protect" /\ resp.token.form = "jwt"
            /\ resp.token.exp # NoTime /\ resp.at >= resp.token.exp)
          => (~resp.claimsOk /\ resp.nextCalls = 0 /\ resp.status = 401)
    /\ (resp.handler = "protect" /\ resp.token \in issued)
          => (resp.claimsOk <=> resp.at < resp.token.exp)

C6_Witness ==
    /\ resp.handler = "protect"
    /\ resp.token \in issued
    /\ resp.at >= resp.token.exp
    /\ resp.status = 401

\* C7: Protect runs the downstream handler at most once, and exactly when a
\* token was extracted, validated, its account found and the password not
\* changed since issuance; the context then carries the looked-up account;
\* otherwise a 401 is written.
C7_NextOnlyWhenAllChecksPass ==
    resp.handler = "protect"
        => /\ resp.nextCalls <= 1
           /\ resp.nextCalls = 1
                <=> (resp.token.form # "empty" /\ resp.claimsOk /\ resp.rowFound
                        /\ ~ChangedSince(resp.row, resp.token))
           /\ resp.nextCalls = 1
                => (resp.ctxUser.ID = resp.row.id /\ resp.ctxUser.Email = resp.row.email)
           /\ resp.nextCalls = 0 => resp.status = 401

\* C8: a hash made by HashPassword for p verifies for p and for no other
\* password.
C8_VerifyRoundTrip ==
    (last.op = "check" /\ last.inKind = "hashed")
        => /\ last.ok <=> last.password = last.inOwner
           /\ last.password = last.inOwner => last.err = NoErr

C8_Witness ==
    /\ last.op = "check"
    /\ last.inKind = "hashed"
    /\ last.password = last.inOwner
    /\ last.ok

\* C9: with the correct password and a stored hash below the current
\* defaults in memory, iterations or parallelism, UpgradeHashIfNeeded returns
\* didUpgrade = true and a hash under the current parameters that verifies;
\* called again on that hash it returns it unchanged with didUpgrade = false.
C9_UpgradeBelowDefault ==
    /\ (last.op = "upgrade" /\ last.inKind = "other" /\ last.password = last.inOwner
            /\ LET h == parsePHCString(last.inHash).hash IN
               \/ h.Memory < defaultMemory
               \/ h.Iterations < defaultIterations
               \/ h.Parallelism < defaultParallelism)
          => /\ last.didUpgrade
             /\ last.err = NoErr
             /\ LET n == parsePHCString(last.hash) IN
                /\ n.ok
                /\ n.hash.Memory = defaultMemory
                /\ n.hash.Iterations = defaultIterations
                /\ n.hash.Parallelism = defaultParallelism
             /\ CheckPassword(last.password, last.hash).ok
    /\ (last.op = "upgrade" /\ last.inKind = "upgraded" /\ last.password = last.inOwner)
          => (~last.didUpgrade /\ last.err = NoErr /\ last.hash = last.inHash)

C9_Witness ==
    /\ last.op = "upgrade"
    /\ last.inKind = "upgraded"
    /\ last.password = last.inOwner
    /\ ~last.didUpgrade
    /\ last.hash = last.inHash

\* C10: a record written under cost parameters or a key length other than
\* the current defaults verifies for its password.
C10_VerifyUsesStoredParameters ==
    (last.op = "check" /\ last.inKind = "other" /\ last.password = last.inOwner)
        => (last.ok /\ last.err = NoErr)

C10_Witness ==
    /\ last.op = "check"
    /\ last.inKind = "other"
    /\ last.password = last.inOwner
    /\ parsePHCString(last.inHash).hash.Memory # defaultMemory
    /\ last.ok

\* C11: parsePHCString returns an error and no record, never a partly
\* filled one, for a string with a segment count other than 6, another
\* algorithm id, an unsupported version, a non-numeric m, t or p, a missing
\* key among m, t, p, or a salt or hash segment that is not unpadded base64.
C11_MalformedNeverParses ==
    /\ (last.op = "parse" /\ ~last.ok) => last.parsed = NoHash
    /\ \A a \in CraftedInputs :
          (last.op = "parse" /\ last.inHash = a.str
              /\ a.fault \in {"segments", "algorithm", "version", "nonnumeric",
                              "missingkey", "base64"})
            => (~last.ok /\ last.parsed = NoHash)

\* C12: the version, memory, iterations and parallelism of an accepted
\* string are the numbers written in it, and a string with a field out of
\* range, repeated, unknown or misplaced is rejected.
C12_NoSubstitutedParameters ==
    /\ \A c \in OtherParams :
          (last.op = "parse"
              /\ last.inHash = RecordUnder(PwPass, generateSalt(1), c[1], c[2], c[3], c[4]))
            => /\ last.ok
               /\ last.parsed.Version = argon2Version
               /\ last.parsed.Memory = c[1]
               /\ last.parsed.Iterations = c[2]
               /\ last.parsed.Parallelism = c[3]
    /\ \A a \in CraftedInputs :
          (last.op = "parse" /\ last.inHash = a.str
              /\ a.fault \in {"parallelism above 255", "out of range", "no version prefix",
                              "repeated key", "unknown key", "leading text"})
            => ~last.ok

\* C13: a string the codec wrote for a record, under any cost parameters,
\* decoded and encoded again is the same string, and decoding the encoding
\* of the record gives that record back.
C13_CodecRoundTrip ==
    (last.op = "reencode" /\ last.ok /\ last.inKind \in {"other", "hashed", "upgraded"})
        => /\ last.hash = last.inHash
           /\ parsePHCString(last.hash).ok
           /\ parsePHCString(last.hash).hash = last.parsed

\* C14: an accepted string has a salt of defaultSaltLength bytes and a key
\* of defaultKeyLength bytes, so that CheckPassword compares only against
\* keys of that length.
C14_FixedSaltAndKeyLength ==
    /\ (last.op = "parse" /\ last.ok)
          => /\ Len(last.parsed.Salt) = defaultSaltLength
             /\ Len(last.parsed.Hash) = defaultKeyLength
    /\ (last.op = "check" /\ last.err = NoErr /\ ~last.panic)
          => Len(parsePHCString(last.inHash).hash.Hash) = defaultKeyLength

\* C15: when the account of a validated token is not found, Protect answers
\* 401 with the response it gives for an invalid token.
C15_MissingAccountLooksLikeBadToken ==
    (resp.handler = "protect" /\ resp.claimsOk /\ ~resp.rowFound)
        => (resp.status = 401 /\ resp.nextCalls = 0
            /\ resp.message = "Invalid or expired token")

\* C16: every login that issues no token answers 401 "Invalid email or
\* password", whether the email is unknown or the password wrong, whatever
\* the state of the account.
C16_UniformLoginFailure ==
    (resp.handler = "login" /\ resp.token.form # "jwt")
        => (resp.status = 401 /\ resp.message = "Invalid email or password")

\* C17: the candidate token is the cookie's value when the cookie is there
\* and not empty, and only otherwise what follows "Bearer " in the header;
\* a cookie token that fails validation is not replaced by the header's.
C17_CookieBeforeHeader ==
    resp.handler = "protect"
        => /\ (resp.cookie.present /\ resp.cookie.value.form # "empty")
                => (resp.token = resp.cookie.value /\ resp.source = "cookie")
           /\ (~(resp.cookie.present /\ resp.cookie.value.form # "empty")
                  /\ resp.header.present /\ resp.header.scheme = "Bearer ")
                => resp.token = resp.header.rest
           /\ (~(resp.cookie.present /\ resp.cookie.value.form # "empty")
                  /\ ~(resp.header.present /\ resp.header.scheme = "Bearer "))
                => (resp.token.form = "empty" /\ resp.status = 401)
           /\ (resp.cookie.present /\ resp.cookie.value = NotAToken)
                => (resp.nextCalls = 0 /\ resp.status = 401)

C17_Witness ==
    /\ resp.handler = "protect"
    /\ resp.cookie.present
    /\ resp.cookie.value = NotAToken
    /\ resp.header.present
    /\ resp.header.scheme = "Bearer "
    /\ resp.header.rest \in issued
    /\ resp.at < resp.header.rest.exp
    /\ resp.status = 401

C19_ClaimsOfIssuedToken ==
    /\ (resp.handler = "login" /\ resp.status = 200)
          => /\ resp.token.user_id = Itoa(resp.row.id)
             /\ resp.token.role = resp.row.role
             /\ resp.token.iss = Issuer
             /\ resp.token.iat = resp.at
             /\ resp.token.exp = resp.at + TokenLifetime
             /\ ValidateJWT(resp.token, resp.at).ok
             /\ ValidateJWT(resp.token, resp.at).claims.user_id = Itoa(resp.row.id)
             /\ ValidateJWT(resp.token, resp.at).claims.role = resp.row.role
    /\ \A t \in issued : t.exp > t.iat /\ t.exp = t.iat + TokenLifetime

C19_Witness ==
    /\ resp.handler = "login"
    /\ resp.status = 200
    /\ resp.token \in issued
    /\ resp.at > 0

\* C20: a login whose password verifies, whose token could be created and
\* whose upgraded hash could not be stored still succeeds with a token, and
\* the row keeps the hash it had, which verifies the same password.
C20_UnsavedUpgradeKeepsLogin ==
    (resp.handler = "login" /\ resp.didUpgrade /\ ~resp.saved
        /\ resp.message # "Failed to create session")
        => /\ resp.status = 200
           /\ resp.token.form = "jwt"
           /\ resp.cookieSet
           /\ resp.storedAfter = resp.row.password_hash
           /\ CheckPassword(resp.password, resp.storedAfter).ok

C20_Witness ==
    /\ resp.handler = "login"
    /\ resp.didUpgrade
    /\ ~resp.saved
    /\ resp.status = 200
    /\ resp.row.password_hash = SeedHash
    /\ resp.storedAfter = SeedHash

\* C21: when HashPassword, CheckPassword or UpgradeHashIfNeeded returns, on
\* every exit path, each buffer the call made for the password copy, the
\* salt and the derived or decoded key holds only zero bytes.
C21_BuffersZeroed ==
    last.op \in {"hash", "check", "upgrade"}
        => \A i \in 1..Len(last.buffers) :
              \A j \in 1..Len(last.buffers[i].bytes) : last.buffers[i].bytes[j] = 0

\* C22: a login on an active account whose stored hash parsePHCString
\* rejects is answered as an internal error (500), not with the answer a
\* wrong password gets, and the answer does not carry the parse error.
C22_CorruptHashIsInternalError ==
    (resp.handler = "login" /\ resp.rowFound /\ ~resp.row.hash_null /\ resp.row.is_active
        /\ ~parsePHCString(resp.row.password_hash).ok)
        => /\ resp.status = 500
           /\ resp.message # "Invalid email or password"
           /\ resp.message \notin {"invalid hash format", "password verification failed",
                                   "failed to parse stored hash"}

\* C23: the signing key is loaded once, at start-up; with JWT_SECRET_KEY
\* missing or empty the process stops before any handler runs; no token is
\* ever signed or verified with an empty key.
C23_NoTokenWithoutKey ==
    /\ Running => (jwtKey # NoKey /\ jwtKey = process.env)
    /\ process.env = NoKey => process.state \in {"starting", "stopped"}
    /\ ~Running => (issued = {} /\ resp = NoResp)
    /\ \A t \in issued : t.key # NoKey /\ t.key = process.env
    /\ resp.handler \in {"login", "protect"} => (Running /\ jwtKey # NoKey)

C23_Witness ==
    /\ process.env = NoKey
    /\ process.state = "stopped"
    /\ jwtKey = NoKey
    /\ issued = {}

\* C24: HashPassword answers the empty password and every password shorter
\* than 4 bytes with an error and an empty result, having made no salt and
\* derived no key; a password of 4 bytes or more is hashed.
C24_MinimumLength ==
    last.op = "hash"
        => IF Len(last.password) < 4
           THEN /\ last.err # NoErr
                /\ last.hash = << >>
                /\ last.buffers = << >>
                /\ stored.str = last.inHash
           ELSE /\ last.err = NoErr
                /\ last.hash # << >>
                /\ stored.str = last.hash
                /\ \E i \in 1..Len(last.buffers) : last.buffers[i].of = "salt"
                /\ \E i \in 1..Len(last.buffers) : last.buffers[i].of = "key"

C24_Witness ==
    /\ last.op = "hash"
    /\ last.password = PwAbc
    /\ last.err = "password must be at least 4 characters"
    /\ last.hash = << >>

\* The element of a batch at position i names an id and no allowed column.
IsNoOp(update) ==
    /\ "id" \in DOMAIN update
    /\ update["id"].t = "number"
    /\ DOMAIN update \cap allowedCols = {}

HasNumericId(update) == "id" \in DOMAIN update /\ update["id"].t = "number"

\* The allowed columns the element names.
FieldsOf(update) == DOMAIN update \cap allowedCols

\* The value the batch leaves in column k of the row id: that of the last
\* element naming both.
LastValue(updates, id, k) ==
    LET J == {j \in 1..Len(updates) : updates[j]["id"].n = 10 * id /\ k \in FieldsOf(updates[j])}
    IN updates[CHOOSE j \in J : \A i \in J : i <= j][k].s

\* C26: a bulk patch is all or nothing.  An element without a numeric id,
\* with a non-string value for an allowed column, or whose UPDATE affects no
\* row makes the call fail and leaves the table as it was; on success every
\* element was applied and the ids returned are those of the batch, in the
\* order of the batch.
C26_BulkPatchAllOrNothing ==
    (resp.handler = "bulkpatch" /\ resp.body.valid)
        => /\ resp.status # 200 => (teachers = resp.before /\ resp.updatedIds = << >>)
           /\ (\E i \in 1..Len(resp.body.updates) :
                  \/ ~HasNumericId(resp.body.updates[i])
                  \/ \E k \in FieldsOf(resp.body.updates[i]) :
                        resp.body.updates[i][k].t # "string")
                => resp.status # 200
           /\ (\E i \in 1..Len(resp.body.updates) :
                  /\ HasNumericId(resp.body.updates[i])
                  /\ FieldsOf(resp.body.updates[i]) # {}
                  /\ \A id \in DOMAIN resp.before : resp.body.updates[i]["id"].n # 10 * id)
                => resp.status # 200
           /\ resp.status = 200
                => /\ Len(resp.updatedIds) = Len(resp.body.updates)
                   /\ \A i \in 1..Len(resp.body.updates) :
                         /\ 10 * resp.updatedIds[i] = resp.body.updates[i]["id"].n
                         /\ \A k \in FieldsOf(resp.body.updates[i]) :
                               teachers[resp.updatedIds[i]][k]
                                 = LastValue(resp.body.updates, resp.updatedIds[i], k)

\* C27: when UpgradeHashIfNeeded returns didUpgrade = true, the new hash's
\* memory, iterations and parallelism are each at least those of the stored
\* hash it replaces.
C27_UpgradeNeverLowers ==
    (last.op = "upgrade" /\ last.didUpgrade)
        => /\ parsePHCString(last.hash).ok
           /\ parsePHCString(last.hash).hash.Memory >= parsePHCString(last.inHash).hash.Memory
           /\ parsePHCString(last.hash).hash.Iterations
                >= parsePHCString(last.inHash).hash.Iterations
           /\ parsePHCString(last.hash).hash.Parallelism
                >= parsePHCString(last.inHash).hash.Parallelism

\* C28: when GenerateJWT fails, LoginTeacher ends with the 500 answer only,
\* without a session_token cookie and without the 200 success document; so
\* every success document of a login carries a token.
C28_FailedSessionStopsLogin ==
    resp.handler = "login"
        => /\ resp.message = "Failed to create session"
                => (resp.status = 500 /\ ~resp.cookieSet /\ Len(resp.bodies) = 1)
           /\ \A i \in 1..Len(resp.bodies) :
                 resp.bodies[i].statusCode = 200 => resp.bodies[i].token.form = "jwt"

\* C29: a request for a teachers route that creates, modifies or deletes
\* teacher records changes the table only after Protect accepted its token.
C29_MutationsBehindProtect ==
    (resp.handler \in {"create", "delete"} /\ resp.status \in {201, 204})
        => (resp.claimsOk /\ resp.nextCalls = 1 /\ resp.token.form = "jwt")

\* C30: a request whose validated token carries no issuedAt claim is not
\* forwarded when the account's passwordChangedAt is set.
C30_MissingIatNotForwarded ==
    (resp.handler = "protect" /\ resp.claimsOk /\ resp.rowFound
        /\ resp.token.iat = NoTime /\ resp.row.password_changed_at # NoTime)
        => (resp.nextCalls = 0 /\ resp.status = 401)

====
